---- MODULE Spec2Model ----
(***************************************************************************)
(* State-machine model of mt5_reverse_bot.py: the polling loop of main()   *)
(* against a trading venue.  The venue (MetaTrader5 terminal) is the       *)
(* environment: it holds the live positions, accepts or rejects requests,  *)
(* and changes on its own between any two calls of the bot.                *)
(*                                                                         *)
(* Prices are integers in raw units; Step raw units make one price step    *)
(* at the instrument's precision (info.digits).  Volumes are integers in   *)
(* hundredths of a lot.  A comment is a sequence of one-character strings. *)
(***************************************************************************)
EXTENDS Integers, Sequences, FiniteSets, TLC

\* ---------------------------------------------------------------- bounds
\* Venue tickets run from 9 to MaxTicket, so that annotations of one and of
\* two decimal digits both occur.
MaxTicket == 11
\* Largest raw price drawn for the inputs of the Pass B comparison.
MaxRaw == 6
\* How many positions traders and other tools open over a run.
MaxExternal == 2

Tickets == 9 .. MaxTicket

\* ------------------------------------------------------ program constants
MAGIC == 987654321
COMMENT_PREFIX == <<"R", "E", "V", " ", "o", "f", " ">>
POSITION_TYPE_BUY == 0
POSITION_TYPE_SELL == 1
ORDER_TYPE_BUY == 0
ORDER_TYPE_SELL == 1
\* Python's None (Optional[float], Optional[int]); every price and ticket is >= 0.
None == -1
\* Raw units per price step: what round(price, info.digits) rounds to.
Step == 4

\* ------------------------------------------------------------- the venue
\* Levels the venue stores for a position: 0.0 is "unset", anything else is a
\* price at the instrument's precision.  The market stands between Step and
\* 2 * Step: a long position has its stop-loss below and its take-profit
\* above, a short one the other way round.
StopLevels(type) == IF type = POSITION_TYPE_BUY THEN {0, Step} ELSE {0, 2 * Step}

ProfitLevels(type) == IF type = POSITION_TYPE_BUY THEN {0, 2 * Step} ELSE {0, Step}
Volumes == {1, 2}
Types == {POSITION_TYPE_BUY, POSITION_TYPE_SELL}
\* A position that appears without the bot having opened it is a trader's
\* (no magic number, no comment, any side, volume and levels) or is a foreign
\* one that carries the bot's magic number and a comment that starts with the
\* prefix but does not end in a ticket.
TraderComment == <<>>

ForeignComment == COMMENT_PREFIX \o <<"1", "x">>

\* ------------------------------------------------------- decimal strings
DigitChars == <<"0", "1", "2", "3", "4", "5", "6", "7", "8", "9">>

DigitValue(c) == (CHOOSE i \in 1 .. 10 : DigitChars[i] = c) - 1

IsDigit(c) == \E i \in 1 .. 10 : DigitChars[i] = c

RECURSIVE IntToDigits(_)
\* str(int) of a non-negative integer, as the f-string of line 232 formats it.
IntToDigits(n) ==
    IF n < 10 THEN <<DigitChars[n + 1]>>
    ELSE IntToDigits(n \div 10) \o <<DigitChars[(n % 10) + 1]>>

RECURSIVE DigitsToInt(_)
\* int() of a non-empty string of decimal digits.
DigitsToInt(s) ==
    IF Len(s) = 1 THEN DigitValue(s[1])
    ELSE 10 * DigitsToInt(SubSeq(s, 1, Len(s) - 1)) + DigitValue(s[Len(s)])

StartsWith(s, prefix) ==
    /\ Len(s) >= Len(prefix)
    /\ SubSeq(s, 1, Len(prefix)) = prefix

\* ---------------------------------------------------------------- helpers
\* The price cut off at the step below instead of rounded.
normalize_truncates(info, price) ==
    IF ~info THEN price ELSE (price \div Step) * Step

\* round(price, digits): to the nearest price step, ties to the even step.
RoundToStep(price) ==
    LET q == price \div Step
        r == price % Step
    IN  IF 2 * r < Step THEN q * Step
        ELSE IF 2 * r > Step THEN (q + 1) * Step
        ELSE IF q % 2 = 0 THEN q * Step
        ELSE (q + 1) * Step

\* info: whether mt5.symbol_info(symbol) returned the instrument's metadata.
normalize_price(info, price) ==
    IF ~info THEN price ELSE RoundToStep(price)

is_our_reverse(pos) ==
    IF pos.magic # MAGIC THEN FALSE
    ELSE IF pos.comment # <<>> /\ StartsWith(pos.comment, COMMENT_PREFIX) THEN TRUE
    ELSE FALSE

\* The regex without its end anchor and for one digit: the first digit after
\* the prefix is taken, whatever follows it.
parse_leading_digit(comment) ==
    LET rest == SubSeq(comment, Len(COMMENT_PREFIX) + 1, Len(comment))
    IN  IF /\ StartsWith(comment, COMMENT_PREFIX)
           /\ rest # <<>>
           /\ IsDigit(rest[1])
        THEN DigitValue(rest[1])
        ELSE None

parse_original_ticket_from_comment(comment) ==
    LET rest == SubSeq(comment, Len(COMMENT_PREFIX) + 1, Len(comment))
    IN  IF /\ StartsWith(comment, COMMENT_PREFIX)
           /\ rest # <<>>
           /\ \A i \in 1 .. Len(rest) : IsDigit(rest[i])
        THEN DigitsToInt(rest)
        ELSE None

FormatComment(ticket) == COMMENT_PREFIX \o IntToDigits(ticket)

\* The side of the original kept.
reverse_type_same(original_type) ==
    IF original_type = POSITION_TYPE_BUY THEN ORDER_TYPE_BUY ELSE ORDER_TYPE_SELL

reverse_type(original_type) ==
    IF original_type = POSITION_TYPE_BUY THEN ORDER_TYPE_SELL ELSE ORDER_TYPE_BUY

\* The levels copied instead of swapped.
desired_sltp_unswapped(orig) ==
    << IF orig.sl # 0 /\ orig.sl > 0 THEN orig.sl ELSE None,
       IF orig.tp # 0 /\ orig.tp > 0 THEN orig.tp ELSE None >>

\* <<rev_sl, rev_tp>> of the reverse of orig.
desired_sltp_for_reverse(orig) ==
    << IF orig.tp # 0 /\ orig.tp > 0 THEN orig.tp ELSE None,
       IF orig.sl # 0 /\ orig.sl > 0 THEN orig.sl ELSE None >>

\* round(op.volume * 2.0, 2): exact on volumes in hundredths of a lot.
ReverseVolume(volume) == volume * 2

\* ------------------------------------------------- dict of (key, value) pairs
\* A Python dict, in insertion order: a sequence of <<key, value>> pairs.
DictKeys(d) == {d[i][1] : i \in 1 .. Len(d)}

DictHas(d, k) == k \in DictKeys(d)

DictGet(d, k) == d[CHOOSE i \in 1 .. Len(d) : d[i][1] = k][2]

\* d[k] = v: an existing key keeps its place.
DictSet(d, k, v) ==
    IF DictHas(d, k)
    THEN [i \in 1 .. Len(d) |-> IF d[i][1] = k THEN <<k, v>> ELSE d[i]]
    ELSE Append(d, <<k, v>>)

\* The pop forgotten.
DictPopKeeps(d, k) == d

\* d.pop(k, None)
DictPop(d, k) ==
    LET Other(e) == e[1] # k IN SelectSeq(d, Other)

\* ------------------------------------------------------------------ state
VARIABLES
    positions,      \* venue: live positions, ticket -> position record
    nextTicket,     \* venue: the ticket the next new position gets
    externals,      \* venue: how many positions others have opened so far
    pc,             \* bot: where main() stands in its loop
    orig_to_rev,    \* bot: dict original ticket -> reverse ticket
    reversed_once,  \* bot: set of original tickets reversed in this run
    originals,      \* bot: originals of the snapshot Pass A still has to visit
    op,             \* bot: the original whose order was accepted (settling)
    pos_by_ticket,  \* bot: the snapshot of line 252, ticket -> record
    items,          \* bot: the (original, reverse) pairs Pass B still has to visit
    cmds,           \* log: the requests sent to the venue in this cycle
    acceptedOpen,   \* log: originals whose open request the venue filled, this run
    openedEver,     \* log: <<original, reverse>> of every order the venue filled
    closeIssued,    \* log: reverses a close request was sent for, this run
    tracked,        \* log: the pairs of orig_to_rev at the snapshot of line 252
    quiet,          \* log: cycles begun since the venue last changed by itself (0..2)
    rejected,       \* log: a request was rejected since then
    prevClosed,     \* log: originals whose reverse the previous cycle sent a close for
    missedNow,      \* log: originals whose settling query found no reverse, this cycle
    missedBefore,   \* log: the same of the cycle before, until its Pass A is over
    revLost,        \* log: originals whose pair Pass B dropped for a gone reverse, this run
    failed,         \* log: live originals an open attempt failed for, never linked since
    cmp             \* the Pass B comparison of lines 273-289 on its own: inputs, result

vars ==
    << positions, nextTicket, externals, pc, orig_to_rev, reversed_once,
       originals, op, pos_by_ticket, items, cmds, acceptedOpen, openedEver,
       closeIssued, tracked, quiet, rejected, prevClosed,
       missedNow, missedBefore, revLost, failed, cmp >>

venueVars == <<positions, nextTicket, externals>>

botVars ==
    << pc, orig_to_rev, reversed_once, originals, op,
       pos_by_ticket, items >>

NoCompare == [done |-> FALSE]

logVars == <<acceptedOpen, openedEver, closeIssued, tracked>>

caseVars == <<missedNow, missedBefore, revLost, failed>>

NoPosition == [ticket |-> 0]

EmptyMap == [t \in {} |-> NoPosition]

Position(ticket, type, volume, sl, tp, magic, comment, shown) ==
    [ ticket |-> ticket, type |-> type, volume |-> volume, sl |-> sl, tp |-> tp,
      magic |-> magic, comment |-> comment, shown |-> shown ]

Live == DOMAIN positions

\* What mt5.positions_get() reports: the positions the venue already shows.
Shown == {t \in Live : positions[t].shown}

RECURSIVE InTicketOrder(_)
InTicketOrder(S) ==
    IF S = {} THEN <<>>
    ELSE LET t == CHOOSE x \in S : \A y \in S : x <= y
         IN  <<positions[t]>> \o InTicketOrder(S \ {t})

\* mt5.positions_get() or []: the shown positions, by ticket.
positions_get == InTicketOrder(Shown)

Remove(f, t) == [x \in DOMAIN f \ {t} |-> f[x]]

Put(f, t, v) == [x \in DOMAIN f \cup {t} |-> IF x = t THEN v ELSE f[x]]

\* A request handed to mt5.order_send, with the snapshot record it was built from.
Request(kind, position, orig, type, volume, sl, tp, comment, from) ==
    [ kind |-> kind, position |-> position, orig |-> orig, type |-> type,
      volume |-> volume, sl |-> sl, tp |-> tp, magic |-> MAGIC,
      comment |-> comment, from |-> from ]

Init ==
    /\ positions = EmptyMap
    /\ nextTicket = 9
    /\ externals = 0
    /\ pc = "start"
    /\ orig_to_rev = <<>>
    /\ reversed_once = {}
    /\ originals = <<>>
    /\ op = NoPosition
    /\ pos_by_ticket = EmptyMap
    /\ items = <<>>
    /\ cmds = <<>>
    /\ acceptedOpen = {}
    /\ openedEver = {}
    /\ closeIssued = {}
    /\ tracked = <<>>
    /\ quiet = 0
    /\ rejected = FALSE
    /\ prevClosed = {}
    /\ cmp = NoCompare
    /\ missedNow = {}
    /\ missedBefore = {}
    /\ revLost = {}
    /\ failed = {}

\* ------------------------------------------------- the log of disturbances
\* The venue changed by itself (or what it reports is about to): the count of
\* undisturbed cycles starts again.
Disturbed == quiet' = 0 /\ rejected' = FALSE /\ prevClosed' = {}

Undisturbed == UNCHANGED <<quiet, rejected, prevClosed>>

\* The venue rejected a request of the bot.
Rejection == rejected' = (quiet > 0) /\ UNCHANGED <<quiet, prevClosed>>

\* ------------------------------------------------------- venue on its own
\* The venue changes by itself at any time.  The steps of Pass A before the
\* settling query and the steps of Pass B after its snapshot read nothing of
\* the venue (they work on the snapshots, and the venue's answer to a request
\* is free to be a rejection), so a change of the venue during them has the
\* effect of the same change right after them: the venue moves before the
\* snapshot of line 197 (and during the sleep of line 294), before the query
\* of line 240 and before the snapshot of line 252.
VenueTurn == pc \in {"start", "settle", "snapB"}

\* A position the bot did not open appears (a trader or another tool opens it).
ExternalOpen ==
    /\ VenueTurn
    /\ nextTicket \in Tickets
    /\ externals < MaxExternal
    /\ \/ \E type \in Types, volume \in Volumes :
          \E sl \in StopLevels(type), tp \in ProfitLevels(type) :
             positions' = Put(positions, nextTicket,
                              Position(nextTicket, type, volume, sl, tp,
                                       0, TraderComment, TRUE))
       \/ positions' = Put(positions, nextTicket,
                           Position(nextTicket, POSITION_TYPE_BUY, 1, 0, 0,
                                    MAGIC, ForeignComment, TRUE))
    /\ nextTicket' = nextTicket + 1
    /\ externals' = externals + 1
    /\ UNCHANGED <<botVars, cmds>>
    /\ Disturbed
    /\ UNCHANGED logVars
    /\ UNCHANGED cmp
    /\ UNCHANGED caseVars

\* A position closes at the venue: stop-loss or take-profit hit, or by hand.
ExternalClose ==
    /\ VenueTurn
    /\ \E t \in Live :
          /\ positions' = Remove(positions, t)
          /\ failed' = failed \ {t}
    /\ UNCHANGED <<nextTicket, externals, botVars, cmds>>
    /\ Disturbed
    /\ UNCHANGED logVars
    /\ UNCHANGED cmp
    /\ UNCHANGED <<missedNow, missedBefore, revLost>>

\* The owner of a position the bot did not open moves its levels.
LevelsChange ==
    /\ VenueTurn
    /\ \E t \in Live :
       \E sl \in StopLevels(positions[t].type), tp \in ProfitLevels(positions[t].type) :
          /\ positions[t].comment = TraderComment
          /\ <<sl, tp>> # <<positions[t].sl, positions[t].tp>>
          /\ positions' = [positions EXCEPT ![t].sl = sl, ![t].tp = tp]
    /\ UNCHANGED <<nextTicket, externals, botVars, cmds>>
    /\ Disturbed
    /\ UNCHANGED logVars
    /\ UNCHANGED cmp
    /\ UNCHANGED caseVars

\* A position the venue has accepted becomes visible to positions_get.
Appear ==
    /\ VenueTurn
    /\ \E t \in Live \ Shown : positions' = [positions EXCEPT ![t].shown = TRUE]
    /\ UNCHANGED <<nextTicket, externals, botVars, cmds>>
    /\ Disturbed
    /\ UNCHANGED logVars
    /\ UNCHANGED cmp
    /\ UNCHANGED caseVars

\* ---------------------------------------------------------- classification
NotOurReverse(p) == ~is_our_reverse(p)

\* Every position of the snapshot taken as an original.
OriginalsAll(snapshot) == snapshot

\* lines 200-206
Originals(snapshot) == SelectSeq(snapshot, NotOurReverse)

Reverses(snapshot) == SelectSeq(snapshot, is_our_reverse)

\* The mapping left as it was: nothing recovered from the comments.
RebuildLinksNot(d, revs) == d

RECURSIVE RebuildLinks(_, _)
\* lines 210-214: the effect of the loop on orig_to_rev
RebuildLinks(d, revs) ==
    IF revs = <<>> THEN d
    ELSE LET rp == Head(revs)
             orig_ticket == parse_original_ticket_from_comment(rp.comment)
         IN  RebuildLinks(IF orig_ticket # None
                          THEN DictSet(d, orig_ticket, rp.ticket)
                          ELSE d,
                          Tail(revs))

\* The set rebuilt from the live reverses alone, as the mapping is.
RebuildOnceFresh(once, revs) ==
    {parse_original_ticket_from_comment(revs[i].comment) : i \in 1 .. Len(revs)}
       \ {None}

\* The set left as it was: nothing remembered from the comments.
RebuildOnceNot(once, revs) == once

RECURSIVE RebuildOnce(_, _)
\* lines 210-215: the effect of the loop on reversed_once
RebuildOnce(once, revs) ==
    IF revs = <<>> THEN once
    ELSE LET orig_ticket == parse_original_ticket_from_comment(Head(revs).comment)
         IN  RebuildOnce(IF orig_ticket # None
                         THEN once \cup {orig_ticket}
                         ELSE once,
                         Tail(revs))

\* Where the loop goes once Pass A has no original left.
AfterOriginal(rest) == IF rest = <<>> THEN "snapB" ELSE "passA"

\* lines 197-215: take the snapshot, split it, rebuild the mapping.
Classify ==
    /\ pc = "start"
    /\ originals' = Originals(positions_get)
    /\ orig_to_rev' = RebuildLinks(orig_to_rev, Reverses(positions_get))
    /\ reversed_once' = RebuildOnce(reversed_once, Reverses(positions_get))
    /\ pc' = AfterOriginal(originals')
    /\ UNCHANGED <<venueVars, op, pos_by_ticket, items, cmds>>
    /\ quiet' = IF quiet < 2 THEN quiet + 1 ELSE 2
    /\ UNCHANGED <<logVars, rejected, prevClosed>>
    /\ UNCHANGED cmp
    /\ failed' = failed \ DictKeys(orig_to_rev')
    /\ UNCHANGED <<missedNow, missedBefore, revLost>>

\* ------------------------------------------------------ Pass A: opening
\* Skipped as well once an open attempt for the original has failed.
AlreadyReversedOrTried(o, once, links) ==
    \/ o.ticket \in once /\ ~DictHas(links, o.ticket)
    \/ o.ticket \in failed

\* Skipped as well once the venue has filled an order for the original.
AlreadyReversedOrAccepted(o, once, links) ==
    \/ o.ticket \in once /\ ~DictHas(links, o.ticket)
    \/ o.ticket \in acceptedOpen

\* line 219: reversed once earlier and not linked now
AlreadyReversed(o, once, links) == o.ticket \in once /\ ~DictHas(links, o.ticket)

\* line 223
NeedsReverse(o, links) == ~DictHas(links, o.ticket)

\* lines 229-232 and 106-121: the request send_market_order builds for original o;
\* infoSl and infoTp say whether symbol_info answered in the two calls of
\* normalize_price.  A level of None is left out of the request.
OpenRequest(o, infoSl, infoTp) ==
    LET rsl == desired_sltp_for_reverse(o)[1]
        rtp == desired_sltp_for_reverse(o)[2]
    IN  Request("open", 0, o.ticket, reverse_type(o.type), ReverseVolume(o.volume),
                IF rsl # None THEN normalize_price(infoSl, rsl) ELSE None,
                IF rtp # None THEN normalize_price(infoTp, rtp) ELSE None,
                FormatComment(o.ticket), o)

\* The position the venue creates when it fills a market order.
Filled(req, ticket, shown) ==
    Position(ticket, req.type, req.volume,
             IF req.sl = None THEN 0 ELSE req.sl,
             IF req.tp = None THEN 0 ELSE req.tp,
             req.magic, req.comment, shown)

\* lines 218-223: the original needs no order (skipped, or linked already).
PassASkip ==
    /\ pc = "passA"
    /\ LET o == Head(originals)
       IN  AlreadyReversed(o, reversed_once, orig_to_rev)
              \/ ~NeedsReverse(o, orig_to_rev)
    /\ originals' = Tail(originals)
    /\ pc' = AfterOriginal(originals')
    /\ UNCHANGED <<venueVars, orig_to_rev, reversed_once, op,
                   pos_by_ticket, items, cmds>>
    /\ Undisturbed
    /\ UNCHANGED logVars
    /\ UNCHANGED cmp
    /\ UNCHANGED caseVars

\* lines 225-227 and 97-104: ensure_symbol fails or there is no tick; nothing
\* is sent.
PassAUnavailable ==
    /\ pc = "passA"
    /\ LET o == Head(originals)
       IN  /\ ~AlreadyReversed(o, reversed_once, orig_to_rev)
           /\ NeedsReverse(o, orig_to_rev)
    /\ originals' = Tail(originals)
    /\ pc' = AfterOriginal(originals')
    /\ UNCHANGED <<venueVars, orig_to_rev, reversed_once, op,
                   pos_by_ticket, items, cmds>>
    /\ Disturbed
    /\ UNCHANGED logVars
    /\ UNCHANGED cmp
    /\ failed' = failed \cup {Head(originals).ticket}
    /\ UNCHANGED <<missedNow, missedBefore, revLost>>

\* lines 123-129: the request is sent and the venue does not fill it.
PassARejected ==
    /\ pc = "passA"
    /\ LET o == Head(originals)
       IN  /\ ~AlreadyReversed(o, reversed_once, orig_to_rev)
           /\ NeedsReverse(o, orig_to_rev)
           /\ \E info \in BOOLEAN :
                 cmds' = Append(cmds, OpenRequest(o, info, info))
    /\ originals' = Tail(originals)
    /\ pc' = AfterOriginal(originals')
    /\ UNCHANGED <<venueVars, orig_to_rev, reversed_once, op,
                   pos_by_ticket, items>>
    /\ Rejection
    /\ UNCHANGED logVars
    /\ UNCHANGED cmp
    /\ failed' = failed \cup {Head(originals).ticket}
    /\ UNCHANGED <<missedNow, missedBefore, revLost>>

\* lines 123-134 and 234-239: the venue fills the order; the new position is
\* visible to positions_get at once or only later.
PassAAccepted ==
    /\ pc = "passA"
    /\ nextTicket \in Tickets
    /\ LET o == Head(originals)
       IN  /\ ~AlreadyReversed(o, reversed_once, orig_to_rev)
           /\ NeedsReverse(o, orig_to_rev)
           /\ \E info \in BOOLEAN, shown \in BOOLEAN :
                 LET req == OpenRequest(o, info, info)
                 IN  /\ cmds' = Append(cmds, req)
                     /\ positions' = Put(positions, nextTicket,
                                         Filled(req, nextTicket, shown))
                     /\ IF shown THEN Undisturbed ELSE Disturbed
           /\ acceptedOpen' = acceptedOpen \cup {o.ticket}
           /\ openedEver' = openedEver \cup {<<o.ticket, nextTicket>>}
           /\ op' = o
    /\ nextTicket' = nextTicket + 1
    /\ pc' = "settle"
    /\ UNCHANGED externals
    /\ UNCHANGED <<orig_to_rev, reversed_once, originals,
                   pos_by_ticket, items>>
    /\ UNCHANGED <<closeIssued, tracked>>
    /\ UNCHANGED cmp
    /\ UNCHANGED caseVars

\* line 242
IsReverseOf(p, ticket) ==
    is_our_reverse(p) /\ parse_original_ticket_from_comment(p.comment) = ticket

\* lines 241-246: the first position of the list that is the reverse of the
\* original, or NoPosition.
FindReverse(new_positions, ticket) ==
    LET hits == {i \in 1 .. Len(new_positions) : IsReverseOf(new_positions[i], ticket)}
    IN  IF hits = {} THEN NoPosition
        ELSE new_positions[CHOOSE i \in hits : \A j \in hits : i <= j]

\* The original linked to itself instead of to the position found.
LinkFoundSelf(links, ticket, found) ==
    IF found = NoPosition THEN links ELSE DictSet(links, ticket, ticket)

\* lines 243-244
LinkFound(links, ticket, found) ==
    IF found = NoPosition THEN links ELSE DictSet(links, ticket, found.ticket)

\* The link alone: the original is not remembered as reversed.
OnceFoundNot(once, ticket, found) == once

OnceFound(once, ticket, found) ==
    IF found = NoPosition THEN once ELSE once \cup {ticket}

\* lines 239-246: after the settling delay, look the new reverse up and link it.
Settle ==
    /\ pc = "settle"
    /\ LET found == FindReverse(positions_get, op.ticket)
       IN  /\ orig_to_rev' = LinkFound(orig_to_rev, op.ticket, found)
           /\ reversed_once' = OnceFound(reversed_once, op.ticket, found)
    /\ originals' = Tail(originals)
    /\ pc' = AfterOriginal(originals')
    /\ op' = NoPosition
    /\ UNCHANGED <<venueVars, pos_by_ticket, items, cmds>>
    /\ Undisturbed
    /\ UNCHANGED logVars
    /\ UNCHANGED cmp
    /\ missedNow' = IF FindReverse(positions_get, op.ticket) = NoPosition
                    THEN missedNow \cup {op.ticket} ELSE missedNow
    /\ failed' = failed \ DictKeys(orig_to_rev')
    /\ UNCHANGED <<missedBefore, revLost>>

\* ------------------------------------- Pass B: maintenance and teardown
\* line 252
ByTicket == [t \in Shown |-> positions[t]]

AfterPair(rest) == IF rest = <<>> THEN "sleep" ELSE "passB"

\* lines 252-254: the second snapshot, and the list of pairs to visit.
SnapB ==
    /\ pc = "snapB"
    /\ pos_by_ticket' = ByTicket
    /\ items' = orig_to_rev
    /\ pc' = AfterPair(items')
    /\ UNCHANGED <<venueVars, orig_to_rev, reversed_once, originals, op, cmds>>
    /\ tracked' = orig_to_rev
    /\ Undisturbed
    /\ UNCHANGED <<acceptedOpen, openedEver, closeIssued>>
    /\ UNCHANGED cmp
    /\ missedBefore' = {}
    /\ UNCHANGED <<missedNow, revLost, failed>>

OrigTicket == Head(items)[1]

RevTicket == Head(items)[2]

OrigGone == OrigTicket \notin DOMAIN pos_by_ticket

RevGone == RevTicket \notin DOMAIN pos_by_ticket

\* lines 154-166: the request close_position builds
CloseRequest(rev_pos, orig_ticket) ==
    Request("close", rev_pos.ticket, orig_ticket,
            IF rev_pos.type = POSITION_TYPE_BUY THEN ORDER_TYPE_SELL ELSE ORDER_TYPE_BUY,
            rev_pos.volume, None, None, "close reverse (orig closed)", rev_pos)

\* lines 276-277
CurrentLevel(level) == IF level # 0 /\ level > 0 THEN level ELSE None

\* The comparison dropped: a modify for every live pair.
need_modify_always(desired_sl, desired_tp, cur_sl, cur_tp, info) == TRUE

\* lines 280-289; info[1..4] say whether symbol_info answered in the four
\* calls of normalize_price, in the order of the source.
need_modify(desired_sl, desired_tp, cur_sl, cur_tp, info) ==
    LET bySl == IF desired_sl = None /\ cur_sl # None THEN TRUE
                ELSE IF /\ desired_sl # None
                        /\ (\/ cur_sl = None
                            \/ normalize_price(info[1], desired_sl)
                                  # normalize_price(info[2], cur_sl))
                     THEN TRUE
                ELSE FALSE
        byTp == IF desired_tp = None /\ cur_tp # None THEN TRUE
                ELSE IF /\ desired_tp # None
                        /\ (\/ cur_tp = None
                            \/ normalize_price(info[3], desired_tp)
                                  # normalize_price(info[4], cur_tp))
                     THEN TRUE
                ELSE FALSE
    IN  bySl \/ byTp

\* An unset level left out of the request instead of sent as 0.
ModifyRequestUnsetLeftOut(rev_pos, orig_pos, infoSl, infoTp) ==
    LET sl == desired_sltp_for_reverse(orig_pos)[1]
        tp == desired_sltp_for_reverse(orig_pos)[2]
    IN  Request("modify", rev_pos.ticket, orig_pos.ticket, rev_pos.type,
                rev_pos.volume,
                IF sl # None THEN normalize_price(infoSl, sl) ELSE None,
                IF tp # None THEN normalize_price(infoTp, tp) ELSE None,
                "sync sltp", orig_pos)

\* lines 137-145: the request modify_position_sltp builds
ModifyRequest(rev_pos, orig_pos, infoSl, infoTp) ==
    LET sl == desired_sltp_for_reverse(orig_pos)[1]
        tp == desired_sltp_for_reverse(orig_pos)[2]
    IN  Request("modify", rev_pos.ticket, orig_pos.ticket, rev_pos.type,
                rev_pos.volume,
                IF sl # None THEN normalize_price(infoSl, sl) ELSE 0,
                IF tp # None THEN normalize_price(infoTp, tp) ELSE 0,
                "sync sltp", orig_pos)

\* line 273-289 for the pair at the head of items
PairNeedsModify(info) ==
    LET desired == desired_sltp_for_reverse(pos_by_ticket[OrigTicket])
        rev_pos == pos_by_ticket[RevTicket]
    IN  need_modify(desired[1], desired[2],
                    CurrentLevel(rev_pos.sl), CurrentLevel(rev_pos.tp), info)

\* Whether symbol_info answers while one pair is handled.
Lookups == {[i \in 1 .. 4 |-> info] : info \in BOOLEAN}

\* On to the next pair with the pair left in the mapping.
DropPairKept ==
    /\ items' = Tail(items)
    /\ pc' = AfterPair(items')
    /\ UNCHANGED orig_to_rev

\* lines 263 and 269, and on to the next pair
DropPair ==
    /\ orig_to_rev' = DictPop(orig_to_rev, OrigTicket)
    /\ items' = Tail(items)
    /\ pc' = AfterPair(items')

KeepPair ==
    /\ items' = Tail(items)
    /\ pc' = AfterPair(items')
    /\ UNCHANGED orig_to_rev

\* lines 258-264, 167-172: the original is gone, the close is sent and done.
PassBCloseAccepted ==
    /\ pc = "passB"
    /\ OrigGone /\ ~RevGone
    /\ RevTicket \in Live
    /\ cmds' = Append(cmds, CloseRequest(pos_by_ticket[RevTicket], OrigTicket))
    /\ positions' = Remove(positions, RevTicket)
    /\ DropPair
    /\ UNCHANGED <<nextTicket, externals, reversed_once, originals, op,
                   pos_by_ticket>>
    /\ closeIssued' = closeIssued \cup {RevTicket}
    /\ Undisturbed
    /\ UNCHANGED <<acceptedOpen, openedEver, tracked>>
    /\ UNCHANGED cmp
    /\ UNCHANGED caseVars

\* lines 258-264, 167-170: the original is gone, the close is sent and fails.
PassBCloseRejected ==
    /\ pc = "passB"
    /\ OrigGone /\ ~RevGone
    /\ cmds' = Append(cmds, CloseRequest(pos_by_ticket[RevTicket], OrigTicket))
    /\ DropPair
    /\ UNCHANGED <<venueVars, reversed_once, originals, op,
                   pos_by_ticket>>
    /\ closeIssued' = closeIssued \cup {RevTicket}
    /\ Rejection
    /\ UNCHANGED <<acceptedOpen, openedEver, tracked>>
    /\ UNCHANGED cmp
    /\ UNCHANGED caseVars

\* lines 258-270: the reverse is not in the snapshot; the pair is dropped and
\* nothing is sent.
PassBRevGone ==
    /\ pc = "passB"
    /\ RevGone
    /\ DropPair
    /\ UNCHANGED <<venueVars, reversed_once, originals, op,
                   pos_by_ticket, cmds>>
    /\ Undisturbed
    /\ UNCHANGED logVars
    /\ UNCHANGED cmp
    /\ revLost' = IF OrigGone THEN revLost ELSE revLost \cup {OrigTicket}
    /\ UNCHANGED <<missedNow, missedBefore, failed>>

\* lines 272-291: both are live and the levels agree.
PassBInSync ==
    /\ pc = "passB"
    /\ ~OrigGone /\ ~RevGone
    /\ \E info \in Lookups : ~PairNeedsModify(info)
    /\ KeepPair
    /\ UNCHANGED <<venueVars, reversed_once, originals, op,
                   pos_by_ticket, cmds>>
    /\ Undisturbed
    /\ UNCHANGED logVars
    /\ UNCHANGED cmp
    /\ UNCHANGED caseVars

\* lines 291-292, 146-150: the modify is sent and done.
PassBModifyAccepted ==
    /\ pc = "passB"
    /\ ~OrigGone /\ ~RevGone
    /\ RevTicket \in Live
    /\ \E info \in Lookups :
          LET req == ModifyRequest(pos_by_ticket[RevTicket],
                                   pos_by_ticket[OrigTicket], info[1], info[1])
          IN  /\ PairNeedsModify(info)
              /\ cmds' = Append(cmds, req)
              /\ positions' = [positions EXCEPT ![RevTicket].sl = req.sl,
                                                ![RevTicket].tp = req.tp]
    /\ KeepPair
    /\ UNCHANGED <<nextTicket, externals, reversed_once, originals, op,
                   pos_by_ticket>>
    /\ Undisturbed
    /\ UNCHANGED logVars
    /\ UNCHANGED cmp
    /\ UNCHANGED caseVars

\* lines 291-292, 146-149: the modify is sent and fails.
PassBModifyRejected ==
    /\ pc = "passB"
    /\ ~OrigGone /\ ~RevGone
    /\ \E info \in Lookups :
          /\ PairNeedsModify(info)
          /\ cmds' = Append(cmds, ModifyRequest(pos_by_ticket[RevTicket],
                                                pos_by_ticket[OrigTicket],
                                                info[1], info[1]))
    /\ KeepPair
    /\ UNCHANGED <<venueVars, reversed_once, originals, op,
                   pos_by_ticket>>
    /\ Rejection
    /\ UNCHANGED logVars
    /\ UNCHANGED cmp
    /\ UNCHANGED caseVars

\* line 294: the cycle is over; the locals of the loop body are dead.
EndCycle ==
    /\ pc = "sleep"
    /\ pc' = "start"
    /\ pos_by_ticket' = EmptyMap
    /\ cmds' = <<>>
    /\ UNCHANGED <<venueVars, orig_to_rev, reversed_once, originals, op, items>>
    /\ tracked' = <<>>
    /\ prevClosed' = IF quiet > 0
                     THEN {cmds[i].orig : i \in {j \in 1 .. Len(cmds) : cmds[j].kind = "close"}}
                     ELSE {}
    /\ UNCHANGED <<acceptedOpen, openedEver, closeIssued, quiet, rejected>>
    /\ UNCHANGED cmp
    /\ missedBefore' = missedNow
    /\ missedNow' = {}
    /\ UNCHANGED <<revLost, failed>>

\* The process is stopped and started again: lines 190 and 194.
Restart ==
    /\ pc' = "start"
    /\ orig_to_rev' = <<>>
    /\ reversed_once' = {}
    /\ originals' = <<>>
    /\ op' = NoPosition
    /\ pos_by_ticket' = EmptyMap
    /\ items' = <<>>
    /\ cmds' = <<>>
    /\ UNCHANGED venueVars
    /\ acceptedOpen' = {}
    /\ closeIssued' = {}
    /\ tracked' = <<>>
    /\ Disturbed
    /\ UNCHANGED openedEver
    /\ UNCHANGED cmp
    /\ missedNow' = {}
    /\ missedBefore' = {}
    /\ revLost' = {}
    /\ failed' = {}

Next ==
    \/ ExternalOpen
    \/ ExternalClose
    \/ LevelsChange
    \/ Appear
    \/ Classify
    \/ PassASkip
    \/ PassAUnavailable
    \/ PassARejected
    \/ PassAAccepted
    \/ Settle
    \/ SnapB
    \/ PassBCloseAccepted
    \/ PassBCloseRejected
    \/ PassBRevGone
    \/ PassBInSync
    \/ PassBModifyAccepted
    \/ PassBModifyRejected
    \/ EndCycle
    \/ Restart

Spec == Init /\ [][Next]_vars

\* The loop of main() never stops: whenever the bot can take a step it does.
BotStep ==
    \/ Classify
    \/ PassASkip
    \/ PassAUnavailable
    \/ PassARejected
    \/ PassAAccepted
    \/ Settle
    \/ SnapB
    \/ PassBCloseAccepted
    \/ PassBCloseRejected
    \/ PassBRevGone
    \/ PassBInSync
    \/ PassBModifyAccepted
    \/ PassBModifyRejected
    \/ EndCycle

\* The venue accepts the modify request for reverse r.
ModifyAcceptedFor(r) == PassBModifyAccepted /\ RevTicket = r

\* The bot starts when others have opened, and closed again, all but one of
\* the positions they open over the run: one original and its reverses remain
\* to come.
InitLate ==
    /\ positions = EmptyMap
    /\ nextTicket = 9 + (MaxExternal - 1)
    /\ externals = MaxExternal - 1
    /\ Init!4 /\ Init!5 /\ Init!6 /\ Init!7 /\ Init!8 /\ Init!9 /\ Init!10
    /\ Init!11 /\ Init!12 /\ Init!13 /\ Init!14 /\ Init!15 /\ Init!16
    /\ Init!17 /\ Init!18 /\ Init!19
    /\ Init!20 /\ Init!21 /\ Init!22 /\ Init!23

\* The loop keeps running, and a reverse whose modify request is sent again
\* and again has it accepted in the end.
FairSpec ==
    /\ InitLate
    /\ [][Next]_vars
    /\ WF_vars(BotStep)
    /\ \A r \in Tickets : SF_vars(ModifyAcceptedFor(r))

\* ------------------------------ the comparison of Pass B on raw prices
\* The levels of an original and of its reverse as any raw prices, and the
\* outcome of each of the four lookups of symbol_info.
RawLevels == 0 .. MaxRaw

InitCompare ==
    /\ Init!1 /\ Init!2 /\ Init!3 /\ Init!4 /\ Init!5 /\ Init!6 /\ Init!7
    /\ Init!8 /\ Init!9 /\ Init!10 /\ Init!11 /\ Init!12 /\ Init!13
    /\ Init!14 /\ Init!15 /\ Init!16 /\ Init!17 /\ Init!18
    /\ Init!20 /\ Init!21 /\ Init!22 /\ Init!23
    /\ cmp \in [ done : {FALSE}, orig_sl : RawLevels, orig_tp : RawLevels,
                  rev_sl : RawLevels, rev_tp : RawLevels ]

\* lines 273-289 on the levels of cmp
Compare ==
    /\ ~cmp.done
    /\ \E info \in [1 .. 4 -> BOOLEAN] :
          LET desired == desired_sltp_for_reverse([sl |-> cmp.orig_sl, tp |-> cmp.orig_tp])
          IN  cmp' = [ done |-> TRUE,
                       orig_sl |-> cmp.orig_sl, orig_tp |-> cmp.orig_tp,
                       rev_sl |-> cmp.rev_sl, rev_tp |-> cmp.rev_tp,
                       desired_sl |-> desired[1], desired_tp |-> desired[2],
                       cur_sl |-> CurrentLevel(cmp.rev_sl),
                       cur_tp |-> CurrentLevel(cmp.rev_tp),
                       info |-> info,
                       need_modify |-> need_modify(desired[1], desired[2],
                                                   CurrentLevel(cmp.rev_sl),
                                                   CurrentLevel(cmp.rev_tp), info) ]
    /\ UNCHANGED <<venueVars, botVars, cmds, logVars, quiet, rejected, prevClosed>>
    /\ UNCHANGED caseVars

NextCompare == Compare

SpecCompare == InitCompare /\ [][NextCompare]_vars

\* ================================================================ claims
\* A step sends a request of this kind to the venue.
Sends(kind) == Len(cmds') = Len(cmds) + 1 /\ cmds'[Len(cmds')].kind = kind

Sent == cmds'[Len(cmds')]

\* The requests of this kind sent so far in this cycle.
SentSoFar(kind) == {cmds[i] : i \in {j \in 1 .. Len(cmds) : cmds[j].kind = kind}}

IsOriginal(t) == t \in Live /\ ~is_our_reverse(positions[t])

\* The shown positions that are reverses annotated with original o.
ReversesOf(o) == {r \in Shown : IsReverseOf(positions[r], o)}

\* The step is the classification of lines 197-215.
ClassifyStep == pc = "start" /\ pc' \in {"passA", "snapB"}

\* C1. Exactly-once reverse: once the venue has accepted an open request for an
\* original in this run, no step sends another open request for that original.
C1_NoOpenAfterAccepted ==
    [][\A o \in acceptedOpen : ~(Sends("open") /\ Sent.orig = o)]_vars

\* C2. One reverse per original even across restarts: for an original that is
\* still live, the venue has filled at most one reverse order, whatever the
\* cycles, restarts and closes of the reverse in between.
C2_OneReversePerOriginal ==
    \A o \in Live : Cardinality({r \in Tickets : <<o, r>> \in openedEver}) <= 1

ClosesOf(r) == {i \in 1 .. Len(cmds) : cmds[i].kind = "close" /\ cmds[i].position = r}

\* At the end of a cycle: every pair Pass B found with the original missing
\* from its snapshot and the reverse in it got exactly one close request and
\* is out of orig_to_rev, and no other close request was sent.
CloseOncePerCycle ==
    pc = "sleep" =>
       /\ \A i \in 1 .. Len(tracked) :
             (/\ tracked[i][1] \notin DOMAIN pos_by_ticket
              /\ tracked[i][2] \in DOMAIN pos_by_ticket)
             => /\ Cardinality(ClosesOf(tracked[i][2])) = 1
                /\ ~DictHas(orig_to_rev, tracked[i][1])
       /\ \A c \in SentSoFar("close") :
             /\ c.orig \notin DOMAIN pos_by_ticket
             /\ c.position \in DOMAIN pos_by_ticket
             /\ \E i \in 1 .. Len(tracked) : tracked[i] = <<c.orig, c.position>>

\* The classification links every original that a shown reverse is annotated
\* with to one of the shown reverses annotated with it.
Relinked ==
    ClassifyStep =>
       \A r \in Shown :
          LET o == parse_original_ticket_from_comment(positions[r].comment)
          IN  (is_our_reverse(positions[r]) /\ o # None)
              => /\ DictHas(orig_to_rev', o)
                 /\ DictGet(orig_to_rev', o) \in ReversesOf(o)

C4_SecondCycleSilent ==
    [][quiet = 2 => ~(Len(cmds') > Len(cmds))]_vars

\* C4 as amended. In the second of two such cycles, when every request of the
\* first was accepted and took effect at once, no open and no modify request
\* is sent, and a close request only for a reverse whose original is gone and
\* was named by another reverse that the first cycle sent a close for.
C4_SecondCycleSilentIfAccepted ==
    [][(quiet = 2 /\ ~rejected /\ Len(cmds') > Len(cmds))
          => (Sends("close") /\ Sent.orig \in prevClosed)]_vars

\* The second undisturbed cycle ends without a request, after a first one
\* whose requests (a close among them) were all accepted.
C4_Witness ==
    /\ pc = "sleep"
    /\ quiet = 2
    /\ ~rejected
    /\ cmds = <<>>
    /\ prevClosed # {}

RecoveredAtFirstClassify ==
    (ClassifyStep /\ orig_to_rev = <<>> /\ reversed_once = {}) =>
       \A o \in Shown :
          (IsOriginal(o) /\ ReversesOf(o) # {})
          => /\ DictHas(orig_to_rev', o)
             /\ DictGet(orig_to_rev', o) \in ReversesOf(o)
             /\ o \in reversed_once'

\* No step sends an open request for an original that is in reversed_once.
NoOpenForReversedOnce ==
    \A o \in reversed_once : ~(Sends("open") /\ Sent.orig = o)

\* C7. Restart recovery: after a restart, with an original and a reverse
\* annotated with its ticket both live, the first cycle links the original to
\* the reverse, puts it in reversed_once and sends no open request for it.
C7_RestartRecovery == [][RecoveredAtFirstClassify /\ NoOpenForReversedOnce]_vars

\* After a restart the classification has linked an original again to the
\* reverse an earlier run had opened for it.
C7_Witness ==
    /\ pc \in {"passA", "snapB"}
    /\ \E o \in Shown, r \in Shown :
          /\ IsOriginal(o)
          /\ <<o, r>> \in openedEver
          /\ o \notin acceptedOpen
          /\ DictHas(orig_to_rev, o)
          /\ DictGet(orig_to_rev, o) = r
          /\ o \in reversed_once

\* C9. The Reversed-Once Set only grows within a run: every step other than a
\* restart of the process leaves in the set what was in it.
C9_OnceOnlyGrows == [][Restart \/ reversed_once \subseteq reversed_once']_vars

\* A cycle ends with a live original in reversed_once whose pair has been
\* dropped from orig_to_rev.
C9_Witness ==
    /\ pc = "sleep"
    /\ \E o \in reversed_once : IsOriginal(o) /\ ~DictHas(orig_to_rev, o)

\* Two shown reverses are annotated with the same original.
Ambiguous(r) ==
    /\ r \in Shown
    /\ is_our_reverse(positions[r])
    /\ \E q \in Shown \ {r} :
          /\ is_our_reverse(positions[q])
          /\ parse_original_ticket_from_comment(positions[q].comment) # None
          /\ parse_original_ticket_from_comment(positions[q].comment)
                = parse_original_ticket_from_comment(positions[r].comment)

\* C10. Linkage ambiguity: when two live reverses are annotated with the same
\* original, the classification leaves no entry of orig_to_rev that points to
\* either of them, and no modify or close request is sent for either.
C10_AmbiguousUnmanaged ==
    [][/\ ClassifyStep =>
             \A i \in 1 .. Len(orig_to_rev') : ~Ambiguous(orig_to_rev'[i][2])
       /\ (Sends("modify") \/ Sends("close")) => ~Ambiguous(Sent.position)]_vars

\* Both unset, or both set and equal after rounding to the price step.
RoundsSame(desired, current) ==
    \/ desired = None /\ current = None
    \/ /\ desired # None
       /\ current # None
       /\ RoundToStep(desired) = RoundToStep(current)

LinkedLive(o, r) ==
    /\ DictHas(orig_to_rev, o)
    /\ DictGet(orig_to_rev, o) = r
    /\ o \in Live
    /\ r \in Live

\* A level of the original as the reverse holds it: unset for unset.
AllLevels == {0, Step, 2 * Step}

\* C5. Swap correctness: for a linked pair whose positions stay live, once
\* the original keeps stop-loss S and take-profit T (and the venue accepts a
\* modify in the end, which FairSpec states), the reverse comes to hold
\* stop-loss T and take-profit S, unset for unset, and keeps them.
C5_SwapConverges ==
    \A o \in Tickets, r \in Tickets, S \in AllLevels, T \in AllLevels :
       <>[](LinkedLive(o, r) /\ positions[o].sl = S /\ positions[o].tp = T)
          => <>[](r \in Live /\ positions[r].sl = T /\ positions[r].tp = S)

\* A linked reverse holds the swapped levels of its original after a modify:
\* both set, and not the levels it was opened with.
C5_Witness ==
    /\ pc = "sleep"
    /\ \E o \in Tickets, r \in Tickets :
          /\ LinkedLive(o, r)
          /\ positions[o].sl # 0 /\ positions[o].tp # 0
          /\ positions[r].sl = positions[o].tp
          /\ positions[r].tp = positions[o].sl
          /\ \E c \in SentSoFar("modify") : c.position = r

\* C11. Shutdown finishes the cycle: the process stops only between two
\* cycles (before the snapshot of line 197 or in the sleep of line 294), so
\* never between an accepted order and the query that links the new reverse.
C11_ShutdownFinishesCycle ==
    [][Restart => pc \in {"start", "sleep"}]_vars

\* C12 as stated. Settling miss: in the cycle after the miss, when Pass A comes
\* to the original, it attempts the open for it again (the request is sent,
\* or fails on the instrument or the quote before it is).
C12_MissedOpenedAgain ==
    [][(pc = "passA" /\ Head(originals).ticket \in missedBefore /\ pc' # "start")
          => (PassAUnavailable \/ PassARejected \/ PassAAccepted)]_vars

\* At the end of a cycle, an original whose settling query missed in it is
\* neither linked nor in reversed_once.
MissLeavesUnlinked ==
    pc = "sleep" =>
       \A o \in missedNow : ~DictHas(orig_to_rev, o) /\ o \notin reversed_once

\* In the cycle after a miss, an original that is in the snapshot and has not
\* been linked from the annotation of a shown reverse gets an open attempt
\* (lines 223-234), and one that has been linked gets none.
MissRetriedUnlessLinked ==
    (pc = "passA" /\ Head(originals).ticket \in missedBefore /\ pc' # "start") =>
       IF DictHas(orig_to_rev, Head(originals).ticket)
       THEN PassASkip
       ELSE PassAUnavailable \/ PassARejected \/ PassAAccepted

\* C12 as amended. Settling miss: the original is in neither orig_to_rev nor
\* reversed_once at the end of the cycle of the miss; in the next cycle an
\* open is attempted for it again if it is still in the snapshot and no shown
\* reverse is annotated with it, and none is sent if the reverse has shown up
\* and the classification has linked it.
C12_MissRetriedUnlessLinked == []MissLeavesUnlinked /\ [][MissRetriedUnlessLinked]_vars

\* In the cycle after a miss the open request has been sent again for the
\* original, whose first reverse is live and still not shown.
C12_Witness ==
    \E o \in missedBefore :
       /\ \E c \in SentSoFar("open") : c.orig = o
       /\ \E r \in Live \ Shown : IsReverseOf(positions[r], o)

\* At the end of a cycle no pair is left in orig_to_rev whose original was
\* missing from the snapshot of Pass B, whether a close request was sent for
\* the reverse and accepted, sent and rejected, or not sent.
GonePairDropped ==
    pc = "sleep" =>
       \A i \in 1 .. Len(tracked) :
          tracked[i][1] \notin DOMAIN pos_by_ticket
          => ~DictHas(orig_to_rev, tracked[i][1])

\* The step of Pass B for a pair whose original is missing leaves
\* reversed_once as it is.
GoneKeepsOnce ==
    (pc = "passB" /\ OrigGone /\ pc' \in {"passB", "sleep"})
       => reversed_once' = reversed_once

\* C13. Pair drop on original gone: at the end of a cycle whose Pass B
\* snapshot lacks a tracked original, orig_to_rev has no entry for it, whatever
\* became of the close of its reverse, and the step leaves reversed_once alone.
C13_GonePairDropped == []GonePairDropped /\ [][GoneKeepsOnce]_vars

\* A cycle ends in which the original of a tracked pair was missing and the
\* close of its reverse failed: the reverse is still live, the original is
\* still in reversed_once.
C13_Witness ==
    /\ pc = "sleep"
    /\ \E i \in 1 .. Len(tracked) :
          /\ tracked[i][1] \notin DOMAIN pos_by_ticket
          /\ tracked[i][2] \in DOMAIN pos_by_ticket
          /\ tracked[i][2] \in Live
          /\ tracked[i][1] \in reversed_once

\* The step of Pass B for a pair whose reverse is missing from the snapshot
\* and whose original is in it sends nothing and drops the pair.
RevGoneDropsSilently ==
    (pc = "passB" /\ ~OrigGone /\ RevGone /\ pc' \in {"passB", "sleep"})
       => /\ cmds' = cmds
          /\ ~DictHas(orig_to_rev', OrigTicket)

\* No step sends an open request for an original whose pair was dropped so.
NoOpenAfterRevLost ==
    \A o \in revLost : ~(Sends("open") /\ Sent.orig = o)

\* C14. Reverse closed independently: when a linked reverse is missing from
\* the snapshot and its original is in it, Pass B drops the pair and sends
\* nothing for it, and no open request is sent for that original in the rest
\* of the run.
C14_RevLostNotReopened == [][RevGoneDropsSilently /\ NoOpenAfterRevLost]_vars

\* Pass A of a later cycle is over and the original, shown and unlinked, got
\* no open request.
C14_Witness ==
    /\ pc = "snapB"
    /\ \E o \in revLost :
          /\ o \in Shown
          /\ ~DictHas(orig_to_rev, o)
          /\ \A c \in SentSoFar("open") : c.orig # o

\* A failed open attempt changes neither orig_to_rev nor reversed_once.
FailureKeepsState ==
    (PassAUnavailable \/ PassARejected) => UNCHANGED <<orig_to_rev, reversed_once>>

\* When Pass A comes to an original that is in the snapshot and has stayed
\* unlinked since an open attempt for it failed, it attempts the open again.
FailedRetried ==
    (pc = "passA" /\ Head(originals).ticket \in failed /\ pc' # "start")
       => (PassAUnavailable \/ PassARejected \/ PassAAccepted)

\* C15. Open failure leaves state unchanged and is retried: a failed open
\* attempt (instrument unavailable, no quote, rejection) changes neither
\* orig_to_rev nor reversed_once, and every later cycle in which the original
\* is still live and has stayed unlinked attempts the open for it again.
C15_FailureRetried == [][FailureKeepsState /\ FailedRetried]_vars

\* An open request is accepted for an original for which an attempt of an
\* earlier cycle had failed.
C15_Witness ==
    /\ pc = "settle"
    /\ op.ticket \in failed
    /\ op.ticket \in acceptedOpen

\* A desired level and the current one differ after rounding; a set level
\* against an unset one differs, either way round.
DiffersAfterRounding(desired, current) ==
    IF desired = None \/ current = None
    THEN desired # current
    ELSE RoundToStep(desired) # RoundToStep(current)

\* The sentinel of an unset level in a modify request.
UnsetAsZero(level) == IF level = None THEN 0 ELSE level

\* The step of Pass B for a pair with both positions in the snapshot, whose
\* desired stop-loss or take-profit differs from the reverse's current one,
\* sends a modify request for the reverse with both desired levels.
ModifyTrigger ==
    LET desired == desired_sltp_for_reverse(pos_by_ticket[OrigTicket])
        rev_pos == pos_by_ticket[RevTicket]
    IN  (/\ pc = "passB" /\ ~OrigGone /\ ~RevGone /\ pc' \in {"passB", "sleep"}
         /\ \/ DiffersAfterRounding(desired[1], CurrentLevel(rev_pos.sl))
            \/ DiffersAfterRounding(desired[2], CurrentLevel(rev_pos.tp)))
        => /\ Sends("modify")
           /\ Sent.position = RevTicket
           /\ Sent.sl \in {UnsetAsZero(desired[1]), RoundToStep(UnsetAsZero(desired[1]))}
           /\ Sent.tp \in {UnsetAsZero(desired[2]), RoundToStep(UnsetAsZero(desired[2]))}

ModifiesOf(r) == {i \in 1 .. Len(cmds) : cmds[i].kind = "modify" /\ cmds[i].position = r}

\* No reverse is sent two modify requests in one cycle.
OneModifyPerCycle == \A r \in Tickets : Cardinality(ModifiesOf(r)) <= 1

\* C16. Modify trigger: in Pass B, for a pair with both positions live, when
\* the desired stop-loss or take-profit differs from the reverse's current one
\* after rounding (set against unset counts, both ways), exactly one modify
\* request is sent for the reverse in the cycle, with both desired levels and
\* 0 for an unset one.
C16_ModifyTrigger == []OneModifyPerCycle /\ [][ModifyTrigger]_vars

\* A modify request was sent that unsets the stop-loss the reverse has and
\* sets a take-profit.
C16_Witness ==
    \E c \in SentSoFar("modify") :
       /\ c.sl = 0
       /\ c.tp # 0
       /\ pos_by_ticket[c.position].sl # 0

\* The same trigger on any raw prices and any outcome of the four lookups of
\* symbol_info (under SpecCompare): levels that differ after rounding ask for
\* a modify.
ModifyTriggerOnRawPrices ==
    cmp.done =>
       ((\/ DiffersAfterRounding(cmp.desired_sl, cmp.cur_sl)
         \/ DiffersAfterRounding(cmp.desired_tp, cmp.cur_tp))
        => cmp.need_modify)

\* The position carries the bot's magic number and a comment that starts with
\* the prefix and is not the prefix followed by decimal digits only.
Unparseable(p) ==
    LET rest == SubSeq(p.comment, Len(COMMENT_PREFIX) + 1, Len(p.comment))
    IN  /\ p.magic = MAGIC
        /\ StartsWith(p.comment, COMMENT_PREFIX)
        /\ \/ rest = <<>>
           \/ \E i \in 1 .. Len(rest) : ~IsDigit(rest[i])

C18_OnlyReversesTargeted ==
    \A c \in SentSoFar("modify") \cup SentSoFar("close") :
       LET p == pos_by_ticket[c.position]
       IN  /\ p.magic = MAGIC
           /\ is_our_reverse(p)
           /\ parse_original_ticket_from_comment(p.comment) # None
           /\ parse_original_ticket_from_comment(p.comment) = c.orig

\* A modify request was sent for a reverse while another position, classified
\* as an original, was in the snapshot of Pass B beside the pair.
C18_Witness ==
    \E c \in SentSoFar("modify") :
       \E t \in DOMAIN pos_by_ticket :
          /\ t # c.orig
          /\ ~is_our_reverse(pos_by_ticket[t])

\* C19. No reverse of a reverse: no open request is sent for a position that
\* carries the bot's magic number and a comment starting with the prefix, nor
\* for any position the venue created for an open request of the bot.
C19_NoReverseOfReverse ==
    \A c \in SentSoFar("open") :
       /\ ~(c.from.magic = MAGIC /\ StartsWith(c.from.comment, COMMENT_PREFIX))
       /\ \A o \in Tickets : <<o, c.orig>> \notin openedEver

\* An open request was sent for an original that came after a reverse which
\* is shown and linked.
C19_Witness ==
    \E c \in SentSoFar("open") :
       \E i \in 1 .. Len(orig_to_rev) :
          /\ orig_to_rev[i][2] \in Shown
          /\ orig_to_rev[i][2] < c.orig
          /\ \E o \in Tickets : <<o, orig_to_rev[i][2]>> \in openedEver

\* C20. Linked implies reversed-once: every key of orig_to_rev is a member of
\* reversed_once, in every state the loop reaches between its steps.
C20_LinkedImpliesOnce ==
    \A i \in 1 .. Len(orig_to_rev) : orig_to_rev[i][1] \in reversed_once

\* A pair is linked in a run that has had no open request accepted: it was
\* linked from the annotation of a reverse an earlier run opened.
C20_Witness ==
    /\ orig_to_rev # <<>>
    /\ acceptedOpen = {}
    /\ pc = "sleep"

====
